---- MODULE Spec2Model ----
(***************************************************************************)
(* A model of cargo-rustc-cfg (src/src/lib.rs): the CargoRustcPrintCfg     *)
(* builder, the argument list that execute() hands to the Cargo process,   *)
(* and the parse of the process's captured output into a Cfg or an Error.  *)
(*                                                                         *)
(* Text is a sequence of tokens.  The tokens "=", "\"", "\n", "\r" and " " *)
(* are the characters themselves; BadByte is a byte that is not valid      *)
(* UTF-8; every other token ("target_arch", "gnu", ...) is a run of        *)
(* characters that holds none of these.  Option<T> is a sequence: None is  *)
(* <<>> and Some(v) is <<v>>.                                              *)
(***************************************************************************)
EXTENDS Integers, Sequences, FiniteSets, TLC

VARIABLES
    builder,      \* the CargoRustcPrintCfg value the caller holds
    response,     \* what the process runner answers to the next invocation
    emitted,      \* lines the process has written beyond its first block
    pc,           \* "prepare": before the query; "done": the query returned
    call,         \* the entry point of the last query, with its argument
    cmd,          \* program and argument list of the last invocation
    result,       \* the Result<Cfg, Error> the last query returned
    invocations,  \* how many times the process has been invoked
    prev          \* an earlier query the caller still holds, or NoQuery

vars == <<builder, response, emitted, pc, call, cmd, result, invocations,
          prev>>

---------------------------------------------------------------------------
(* Bounds of the model. *)

MaxLines == 2

MaxQueries == 2

---------------------------------------------------------------------------
(* Constants of the program and characters of the text. *)

CARGO == "cargo"

RUSTC == "rustc"

EQ == "="

QUOTE == "\""

LF == "\n"

CR == "\r"

SPACE == " "

BadByte == "\\xFF"

REPLACEMENT_CHARACTER == "\\uFFFD"

None == <<>>

Some(v) == <<v>>

---------------------------------------------------------------------------
(* std: the string operations execute() uses. *)

IndexOf(s, c) ==
    IF \E i \in 1..Len(s) : s[i] = c
    THEN CHOOSE i \in 1..Len(s) : s[i] = c /\ \A j \in 1..(i - 1) : s[j] # c
    ELSE 0

\* String::from_utf8 succeeds exactly when every byte is valid.
from_utf8_ok(bytes) == \A i \in 1..Len(bytes) : bytes[i] # BadByte

\* String::from_utf8_lossy replaces each invalid byte by U+FFFD.
from_utf8_lossy(bytes) ==
    [i \in 1..Len(bytes) |->
        IF bytes[i] = BadByte THEN REPLACEMENT_CHARACTER ELSE bytes[i]]

\* str::lines: split at "\n", a "\r" before the "\n" is dropped with it,
\* and the text after the last "\n" is a line only when it is not empty.
RECURSIVE lines(_)
lines(s) ==
    IF s = <<>> THEN <<>>
    ELSE LET i == IndexOf(s, LF) IN
         IF i = 0 THEN <<s>>
         ELSE LET l == SubSeq(s, 1, i - 1)
                  line == IF l # <<>> /\ l[Len(l)] = CR
                          THEN SubSeq(l, 1, Len(l) - 1) ELSE l
              IN <<line>> \o lines(SubSeq(s, i + 1, Len(s)))

\* str::split(c): every part between two occurrences of c; at least one part.
RECURSIVE split(_, _)
split(s, c) ==
    LET i == IndexOf(s, c) IN
    IF i = 0 THEN <<s>>
    ELSE <<SubSeq(s, 1, i - 1)>> \o split(SubSeq(s, i + 1, Len(s)), c)

RECURSIVE trim_start_matches(_, _)
trim_start_matches(s, c) ==
    IF s # <<>> /\ s[1] = c THEN trim_start_matches(Tail(s), c) ELSE s

RECURSIVE trim_end_matches(_, _)
trim_end_matches(s, c) ==
    IF s # <<>> /\ s[Len(s)] = c
    THEN trim_end_matches(SubSeq(s, 1, Len(s) - 1), c) ELSE s

\* str::trim_matches(c): every leading and every trailing c is removed.
trim_matches(s, c) == trim_end_matches(trim_start_matches(s, c), c)

---------------------------------------------------------------------------
(* CargoTarget and the CargoRustcPrintCfg builder. *)

Library == [variant |-> "Library"]

Benchmark(name) == [variant |-> "Benchmark", name |-> name]

Binary(name) == [variant |-> "Binary", name |-> name]

Example(name) == [variant |-> "Example", name |-> name]

Test(name) == [variant |-> "Test", name |-> name]

\* A variant that gives a test target the flag of a benchmark.
to_args_TestAsBench(t) ==
    CASE t.variant = "Benchmark" -> <<"--bench", t.name>>
      [] t.variant = "Binary" -> <<"--bin", t.name>>
      [] t.variant = "Example" -> <<"--example", t.name>>
      [] t.variant = "Library" -> <<"--lib">>
      [] t.variant = "Test" -> <<"--bench", t.name>>

to_args(t) ==
    CASE t.variant = "Benchmark" -> <<"--bench", t.name>>
      [] t.variant = "Binary" -> <<"--bin", t.name>>
      [] t.variant = "Example" -> <<"--example", t.name>>
      [] t.variant = "Library" -> <<"--lib">>
      [] t.variant = "Test" -> <<"--test", t.name>>

into_args(t) ==
    CASE t.variant = "Benchmark" -> <<"--bench", t.name>>
      [] t.variant = "Binary" -> <<"--bin", t.name>>
      [] t.variant = "Example" -> <<"--example", t.name>>
      [] t.variant = "Library" -> <<"--lib">>
      [] t.variant = "Test" -> <<"--test", t.name>>

CargoTarget_default == Library

CargoRustcPrintCfg_default ==
    [cargo_args |-> None,
     cargo_target |-> CargoTarget_default,
     cargo_toolchain |-> None,
     rustc_args |-> None,
     rustc_target |-> None]

\* The program of the Command: the CARGO variable when set, else "cargo".
Program(env) == IF env = None THEN CARGO ELSE env[1]

\* A variant that adds the toolchain selector after the subcommand name.
Args_ToolchainAfterRustc(b) ==
    <<RUSTC>>
    \o (IF b.cargo_toolchain # None THEN <<"+" \o b.cargo_toolchain[1]>> ELSE <<>>)
    \o (IF b.cargo_args # None THEN b.cargo_args[1] ELSE <<>>)
    \o (IF b.rustc_target # None THEN <<"--target", b.rustc_target[1]>> ELSE <<>>)
    \o <<"--">>
    \o (IF b.rustc_args # None THEN b.rustc_args[1] ELSE <<>>)
    \o to_args(b.cargo_target)
    \o <<"--print", "cfg">>

\* A variant that adds the rustc arguments before the separator.
Args_RustcArgsBeforeSeparator(b) ==
    (IF b.cargo_toolchain # None THEN <<"+" \o b.cargo_toolchain[1]>> ELSE <<>>)
    \o <<RUSTC>>
    \o (IF b.cargo_args # None THEN b.cargo_args[1] ELSE <<>>)
    \o (IF b.rustc_target # None THEN <<"--target", b.rustc_target[1]>> ELSE <<>>)
    \o (IF b.rustc_args # None THEN b.rustc_args[1] ELSE <<>>)
    \o <<"--">>
    \o to_args(b.cargo_target)
    \o <<"--print", "cfg">>

\* A variant that adds the Cargo arguments after the `--target` pair.
Args_CargoArgsAfterTarget(b) ==
    (IF b.cargo_toolchain # None THEN <<"+" \o b.cargo_toolchain[1]>> ELSE <<>>)
    \o <<RUSTC>>
    \o (IF b.rustc_target # None THEN <<"--target", b.rustc_target[1]>> ELSE <<>>)
    \o (IF b.cargo_args # None THEN b.cargo_args[1] ELSE <<>>)
    \o <<"--">>
    \o (IF b.rustc_args # None THEN b.rustc_args[1] ELSE <<>>)
    \o to_args(b.cargo_target)
    \o <<"--print", "cfg">>

\* A variant that adds the `--target` pair after the separator.
Args_TargetAfterSeparator(b) ==
    (IF b.cargo_toolchain # None THEN <<"+" \o b.cargo_toolchain[1]>> ELSE <<>>)
    \o <<RUSTC>>
    \o (IF b.cargo_args # None THEN b.cargo_args[1] ELSE <<>>)
    \o <<"--">>
    \o (IF b.rustc_target # None THEN <<"--target", b.rustc_target[1]>> ELSE <<>>)
    \o (IF b.rustc_args # None THEN b.rustc_args[1] ELSE <<>>)
    \o to_args(b.cargo_target)
    \o <<"--print", "cfg">>

\* The arguments execute() adds to the Command, in the order it adds them.
Args(b) ==
    (IF b.cargo_toolchain # None THEN <<"+" \o b.cargo_toolchain[1]>> ELSE <<>>)
    \o <<RUSTC>>
    \o (IF b.cargo_args # None THEN b.cargo_args[1] ELSE <<>>)
    \o (IF b.rustc_target # None THEN <<"--target", b.rustc_target[1]>> ELSE <<>>)
    \o <<"--">>
    \o (IF b.rustc_args # None THEN b.rustc_args[1] ELSE <<>>)
    \o to_args(b.cargo_target)
    \o <<"--print", "cfg">>

Command(b, env) == [program |-> Program(env), args |-> Args(b)]

\* The setters of the builder.
cargo_args(b, a) == [b EXCEPT !.cargo_args = Some(a)]

cargo_target(b, t) == [b EXCEPT !.cargo_target = t]

cargo_toolchain(b, t) == [b EXCEPT !.cargo_toolchain = Some(t)]

\* A variant that appends to the rustc arguments the builder holds.
rustc_args_Appends(b, a) ==
    [b EXCEPT !.rustc_args = Some((IF @ # None THEN @[1] ELSE <<>>) \o a)]

rustc_args(b, a) == [b EXCEPT !.rustc_args = Some(a)]

rustc_target(b, t) == [b EXCEPT !.rustc_target = Some(t)]

---------------------------------------------------------------------------
(* The parse of the captured output (the body of execute). *)

TargetKeys ==
    {"target_arch", "target_endian", "target_env", "target_family",
     "target_feature", "target_os", "target_pointer_width", "target_vendor"}

\* The locals of execute() before the loop.
Locals ==
    [extras |-> <<>>, arch |-> None, endian |-> None, env |-> None,
     family |-> None, features |-> <<>>, os |-> None,
     pointer_width |-> None, vendor |-> None]

\* value.trim_matches('"').to_string()
Stripped(value) == trim_matches(value, QUOTE)

\* A variant that keeps an empty value as Some("").
OptionalValue_KeepsEmpty(value) == Some(Stripped(value))

\* The block of an optional key: None for an empty value, else Some.
OptionalValue(value) ==
    LET v == Stripped(value) IN IF v = <<>> THEN None ELSE Some(v)

\* A variant that gives an entry without `=` an empty value.
KeyValue_BareKeyHasEmptyValue(entry) ==
    LET parts == split(entry, EQ) IN
    IF Len(parts) >= 2 THEN <<parts[1], parts[2]>> ELSE <<parts[1], <<>>>>

\* The (parts.next(), parts.next()) of one entry: <<key, value>>, or <<>>
\* when the second next() is None.
KeyValue(entry) ==
    LET parts == split(entry, EQ) IN
    IF Len(parts) >= 2 THEN <<parts[1], parts[2]>> ELSE <<>>

\* str::trim: s without its leading and trailing whitespace.
Whitespace == {SPACE, CR, LF}

RECURSIVE trim(_)
trim(s) ==
    IF s = <<>> THEN s
    ELSE IF Head(s) \in Whitespace THEN trim(Tail(s))
    ELSE IF s[Len(s)] \in Whitespace THEN trim(SubSeq(s, 1, Len(s) - 1))
    ELSE s

\* A variant that trims an extra line.
Extra_Trimmed(entry) == trim(entry)

\* A variant that strips the quotes of an extra line too.
Extra_Stripped(entry) == Stripped(entry)

\* extras.push(String::from(entry)): the entry as it is.
Extra(entry) == entry

\* A variant in which a single-valued local, once set, is not set again.
ParseEntry_FirstWins(l, entry) ==
    LET kv == KeyValue(entry) IN
    IF kv # <<>>
    THEN LET key == kv[1]
             value == kv[2]
         IN CASE key = <<"target_arch">> ->
                     [l EXCEPT !.arch =
                          IF @ # None THEN @ ELSE Some(Stripped(value))]
              [] key = <<"target_endian">> ->
                     [l EXCEPT !.endian =
                          IF @ # None THEN @ ELSE Some(Stripped(value))]
              [] key = <<"target_env">> ->
                     [l EXCEPT !.env =
                          IF @ # None THEN @ ELSE OptionalValue(value)]
              [] key = <<"target_family">> ->
                     [l EXCEPT !.family =
                          IF @ # None THEN @ ELSE OptionalValue(value)]
              [] key = <<"target_feature">> ->
                     [l EXCEPT !.features = Append(@, Stripped(value))]
              [] key = <<"target_os">> ->
                     [l EXCEPT !.os =
                          IF @ # None THEN @ ELSE Some(Stripped(value))]
              [] key = <<"target_pointer_width">> ->
                     [l EXCEPT !.pointer_width =
                          IF @ # None THEN @ ELSE Some(Stripped(value))]
              [] key = <<"target_vendor">> ->
                     [l EXCEPT !.vendor =
                          IF @ # None THEN @ ELSE OptionalValue(value)]
              [] OTHER -> [l EXCEPT !.extras = Append(@, Extra(entry))]
    ELSE [l EXCEPT !.extras = Append(@, Extra(entry))]

\* One iteration of the loop over specification.lines().
ParseEntry(l, entry) ==
    LET kv == KeyValue(entry) IN
    IF kv # <<>>
    THEN LET key == kv[1]
             value == kv[2]
         IN CASE key = <<"target_arch">> ->
                     [l EXCEPT !.arch = Some(Stripped(value))]
              [] key = <<"target_endian">> ->
                     [l EXCEPT !.endian = Some(Stripped(value))]
              [] key = <<"target_env">> ->
                     [l EXCEPT !.env = OptionalValue(value)]
              [] key = <<"target_family">> ->
                     [l EXCEPT !.family = OptionalValue(value)]
              [] key = <<"target_feature">> ->
                     [l EXCEPT !.features = Append(@, Stripped(value))]
              [] key = <<"target_os">> ->
                     [l EXCEPT !.os = Some(Stripped(value))]
              [] key = <<"target_pointer_width">> ->
                     [l EXCEPT !.pointer_width = Some(Stripped(value))]
              [] key = <<"target_vendor">> ->
                     [l EXCEPT !.vendor = OptionalValue(value)]
              [] OTHER -> [l EXCEPT !.extras = Append(@, Extra(entry))]
    ELSE [l EXCEPT !.extras = Append(@, Extra(entry))]

NoResult == [kind |-> "none"]

Err_Io == [kind |-> "Io"]

Err_Command(output) == [kind |-> "Command", output |-> output]

Err_FromUtf8 == [kind |-> "FromUtf8"]

Err_Generic(msg) == [kind |-> "Generic", msg |-> msg]

Err_MissingOutput(key) == [kind |-> "MissingOutput", key |-> key]

\* The Cfg of locals that hold every mandatory field.
CfgOf(l) ==
    [kind |-> "Cfg",
     extras |-> l.extras,
     target |-> [arch |-> l.arch[1], endian |-> l.endian[1],
                 env |-> l.env, family |-> l.family,
                 features |-> l.features, os |-> l.os[1],
                 pointer_width |-> l.pointer_width[1],
                 vendor |-> l.vendor]]

\* A variant that looks for target_os before target_endian.
BuildCfg_OsBeforeEndian(l) ==
    IF l.arch = None THEN Err_MissingOutput("target_arch")
    ELSE IF l.os = None THEN Err_MissingOutput("target_os")
    ELSE IF l.endian = None THEN Err_MissingOutput("target_endian")
    ELSE IF l.pointer_width = None
         THEN Err_MissingOutput("target_pointer_width")
    ELSE CfgOf(l)

\* A variant that starts over at a blank line and drops the blank line.
RECURSIVE ParseLines_RestartsAtBlank(_, _)
ParseLines_RestartsAtBlank(l, entries) ==
    IF entries = <<>> THEN l
    ELSE IF Head(entries) = <<>>
         THEN ParseLines_RestartsAtBlank(Locals, Tail(entries))
    ELSE ParseLines_RestartsAtBlank(ParseEntry(l, Head(entries)), Tail(entries))

\* A variant that takes the lines from the last to the first.
RECURSIVE ParseLines_LastFirst(_, _)
ParseLines_LastFirst(l, entries) ==
    IF entries = <<>> THEN l
    ELSE ParseEntry(ParseLines_LastFirst(l, Tail(entries)), Head(entries))

RECURSIVE ParseLines(_, _)
ParseLines(l, entries) ==
    IF entries = <<>> THEN l
    ELSE ParseLines(ParseEntry(l, Head(entries)), Tail(entries))

\* A variant that takes a mandatory field with an empty value for absent.
BuildCfg_EmptyIsAbsent(l) ==
    IF l.arch \in {None, Some(<<>>)} THEN Err_MissingOutput("target_arch")
    ELSE IF l.endian \in {None, Some(<<>>)}
         THEN Err_MissingOutput("target_endian")
    ELSE IF l.os \in {None, Some(<<>>)} THEN Err_MissingOutput("target_os")
    ELSE IF l.pointer_width \in {None, Some(<<>>)}
         THEN Err_MissingOutput("target_pointer_width")
    ELSE CfgOf(l)

\* A variant that looks for the mandatory fields from the last to the first.
BuildCfg_LastFieldFirst(l) ==
    IF l.pointer_width = None THEN Err_MissingOutput("target_pointer_width")
    ELSE IF l.os = None THEN Err_MissingOutput("target_os")
    ELSE IF l.endian = None THEN Err_MissingOutput("target_endian")
    ELSE IF l.arch = None THEN Err_MissingOutput("target_arch")
    ELSE CfgOf(l)

\* The Ok(Cfg { .. }) expression: the first absent mandatory field, in the
\* order the fields are written, ends it with MissingOutput.
BuildCfg(l) ==
    IF l.arch = None THEN Err_MissingOutput("target_arch")
    ELSE IF l.endian = None THEN Err_MissingOutput("target_endian")
    ELSE IF l.os = None THEN Err_MissingOutput("target_os")
    ELSE IF l.pointer_width = None
         THEN Err_MissingOutput("target_pointer_width")
    ELSE CfgOf(l)

\* The Output of a process that ran.
OutputOf(r) == [status |-> r.status, stdout |-> r.stdout, stderr |-> r.stderr]

\* A variant that reports a line without `=` that is blank as malformed.
ExecuteResult_RejectsBlankLine(r) ==
    IF r.spawn = "err" THEN Err_Io
    ELSE IF r.status # 0 THEN Err_Command(OutputOf(r))
    ELSE IF ~from_utf8_ok(r.stdout) THEN Err_FromUtf8
    ELSE IF \E i \in 1..Len(lines(r.stdout)) : lines(r.stdout)[i] = <<>>
         THEN Err_Generic(<<"malformed line">>)
    ELSE BuildCfg(ParseLines(Locals, lines(r.stdout)))

\* A variant that decodes the stdout with from_utf8_lossy and parses it.
ExecuteResult_LossyStdout(r) ==
    IF r.spawn = "err" THEN Err_Io
    ELSE IF r.status # 0 THEN Err_Command(OutputOf(r))
    ELSE BuildCfg(ParseLines(Locals, lines(from_utf8_lossy(r.stdout))))

\* A variant that decodes the stdout before it looks at the exit status.
ExecuteResult_DecodesBeforeStatus(r) ==
    IF r.spawn = "err" THEN Err_Io
    ELSE IF ~from_utf8_ok(r.stdout) THEN Err_FromUtf8
    ELSE IF r.status # 0 THEN Err_Command(OutputOf(r))
    ELSE BuildCfg(ParseLines(Locals, lines(r.stdout)))

\* What execute() returns for the runner's answer r.
ExecuteResult(r) ==
    IF r.spawn = "err" THEN Err_Io
    ELSE IF r.status # 0 THEN Err_Command(OutputOf(r))
    ELSE IF ~from_utf8_ok(r.stdout) THEN Err_FromUtf8
    ELSE BuildCfg(ParseLines(Locals, lines(r.stdout)))

\* A variant whose Command message is the Debug text of the Output alone.
Display_WithoutStderr(e) ==
    CASE e.kind = "Command" -> <<"Output{..}">>
      [] e.kind = "FromUtf8" -> <<"invalid utf-8 sequence">>
      [] e.kind = "Io" -> <<"io error">>
      [] e.kind = "MissingOutput" ->
             <<"The '", e.key, "' is missing from the output">>

\* impl Display for Error.  The Debug text of an Output is std's and is one
\* token here.
Display(e) ==
    CASE e.kind = "Command" ->
             <<"Output{..}", ":", SPACE>> \o from_utf8_lossy(e.output.stderr)
      [] e.kind = "FromUtf8" -> <<"invalid utf-8 sequence">>
      [] e.kind = "Generic" -> e.msg
      [] e.kind = "Io" -> <<"io error">>
      [] e.kind = "MissingOutput" ->
             <<"The '", e.key, "' is missing from the output">>

\* execute(&self): the Command it runs and the Result it returns, for the
\* value env of the CARGO variable and the runner's answer r.
execute(b, env, r) == [cmd |-> Command(b, env), result |-> ExecuteResult(r)]

\* Cfg::host()
Cfg_host(env, r) == execute(CargoRustcPrintCfg_default, env, r)

\* A variant that leaves the triple out.
Cfg_rustc_target_IgnoresTriple(t, env, r) ==
    execute(CargoRustcPrintCfg_default, env, r)

\* Cfg::rustc_target(t)
Cfg_rustc_target(t, env, r) ==
    execute(rustc_target(CargoRustcPrintCfg_default, t), env, r)

---------------------------------------------------------------------------
(* The inputs: what the process runner may answer, and what a caller may   *)
(* give the builder.                                                       *)

Quoted(v) == <<QUOTE, v, QUOTE>>

Line(key, raw) == <<key, EQ>> \o raw \o <<LF>>

MandatoryKeys ==
    <<"target_arch", "target_endian", "target_os", "target_pointer_width">>

MandatoryValue(key) ==
    CASE key = "target_arch" -> "x86_64"
      [] key = "target_endian" -> "little"
      [] key = "target_os" -> "linux"
      [] key = "target_pointer_width" -> "64"

\* The mandatory lines of the keys in S, as rustc prints them.
RECURSIVE Block(_, _)
Block(S, i) ==
    IF i > Len(MandatoryKeys) THEN <<>>
    ELSE (IF MandatoryKeys[i] \in S
          THEN Line(MandatoryKeys[i], Quoted(MandatoryValue(MandatoryKeys[i])))
          ELSE <<>>) \o Block(S, i + 1)

AllMandatory == {MandatoryKeys[i] : i \in 1..Len(MandatoryKeys)}

\* The first block of a stdout: all mandatory lines, all but one, or none.
FirstBlocks ==
    {Block(AllMandatory, 1), <<>>}
    \cup {Block(AllMandatory \ {k}, 1) : k \in AllMandatory}

\* A blank line and the block of a second target.
SecondBlock ==
    <<LF>>
    \o Line("target_arch", Quoted("wasm32"))
    \o Line("target_endian", Quoted("little"))
    \o Line("target_os", Quoted("unknown"))
    \o Line("target_pointer_width", Quoted("32"))

\* The lines a process may write after its first block.
MoreLines ==
    {Line("target_env", Quoted("gnu")),
     Line("target_env", <<QUOTE, QUOTE>>),
     <<"target_family", EQ>> \o Quoted("unix") \o <<CR, LF>>,
     Line("target_family", <<>>),
     Line("target_vendor", Quoted("pc")),
     Line("target_vendor", <<QUOTE, QUOTE>>),
     Line("target_feature", Quoted("sse")),
     Line("target_feature", Quoted("sse2")),
     Line("target_arch", <<"arm">>),
     Line("target_os", <<QUOTE, QUOTE, "none", QUOTE, QUOTE>>),
     Line("target_endian", Quoted("big") \o <<EQ, "x">>),
     Line("target_pointer_width", <<QUOTE, QUOTE>>),
     Line("panic", Quoted("unwind")),
     <<"unix", LF>>,
     <<LF>>,
     <<"target_arch", LF>>,
     <<SPACE, "debug_assertions", SPACE, LF>>,
     <<BadByte, LF>>,
     <<"windows">>,
     SecondBlock}

\* Exit status and captured stderr of a process that ran.
Exits ==
    {<<0, <<>>>>, <<1, <<"error", SPACE, "E0463">>>>, <<101, <<"error", BadByte>>>>}

SpawnError == [spawn |-> "err", status |-> 0, stdout |-> <<>>, stderr |-> <<>>]

Responses ==
    {SpawnError}
    \cup {[spawn |-> "ok", status |-> e[1], stdout |-> b, stderr |-> e[2]] :
             e \in Exits, b \in FirstBlocks}

CargoPaths == {None, Some("/opt/cargo")}

Names == {"app", "cli"}

CargoTargets ==
    {Library} \cup {Benchmark(n) : n \in Names} \cup {Binary(n) : n \in Names}
    \cup {Example(n) : n \in Names} \cup {Test(n) : n \in Names}

ArgLists == {<<>>, <<"--release">>, <<"-v", "--release">>}

RustcArgLists == {<<"-C", "lto">>, <<"--cfg", "--">>}

Toolchains == {"nightly", "stable"}

Triples == {"x86_64-pc-windows-msvc", "wasm32-unknown-unknown"}

---------------------------------------------------------------------------
(* The state machine. *)

NoCommand == [program |-> "", args |-> <<>>]

NoQuery == [call |-> <<>>]

Init ==
    /\ builder = CargoRustcPrintCfg_default
    /\ response \in Responses
    /\ emitted = 0
    /\ pc = "prepare"
    /\ call = <<>>
    /\ cmd = NoCommand
    /\ result = NoResult
    /\ invocations = 0
    /\ prev = NoQuery

\* The process writes more to its stdout.
EmitLine ==
    /\ pc = "prepare"
    /\ response.spawn = "ok"
    /\ emitted < MaxLines
    /\ \E line \in MoreLines :
           response' = [response EXCEPT !.stdout = @ \o line]
    /\ emitted' = emitted + 1
    /\ UNCHANGED <<builder, pc, call, cmd, result, invocations, prev>>

Call_default ==
    /\ pc = "prepare"
    /\ builder' = CargoRustcPrintCfg_default
    /\ UNCHANGED <<response, emitted, pc, call, cmd, result, invocations, prev>>

Call_cargo_args ==
    /\ pc = "prepare"
    /\ \E a \in ArgLists : builder' = cargo_args(builder, a)
    /\ UNCHANGED <<response, emitted, pc, call, cmd, result, invocations, prev>>

Call_cargo_target ==
    /\ pc = "prepare"
    /\ \E t \in CargoTargets : builder' = cargo_target(builder, t)
    /\ UNCHANGED <<response, emitted, pc, call, cmd, result, invocations, prev>>

Call_cargo_toolchain ==
    /\ pc = "prepare"
    /\ \E t \in Toolchains : builder' = cargo_toolchain(builder, t)
    /\ UNCHANGED <<response, emitted, pc, call, cmd, result, invocations, prev>>

Call_rustc_args ==
    /\ pc = "prepare"
    /\ \E a \in RustcArgLists : builder' = rustc_args(builder, a)
    /\ UNCHANGED <<response, emitted, pc, call, cmd, result, invocations, prev>>

Call_rustc_target ==
    /\ pc = "prepare"
    /\ \E t \in Triples : builder' = rustc_target(builder, t)
    /\ UNCHANGED <<response, emitted, pc, call, cmd, result, invocations, prev>>

\* A variant in which a query takes the rustc target out of the builder.
Returned_TakesTarget(name, q) ==
    /\ pc' = "done"
    /\ call' = name
    /\ cmd' = q.cmd
    /\ result' = q.result
    /\ invocations' = invocations + 1
    /\ builder' = [builder EXCEPT !.rustc_target = None]
    /\ UNCHANGED <<response, emitted, prev>>

\* A variant that runs the process a second time when the first run fails.
Returned_RetriesOnError(name, q) ==
    /\ pc' = "done"
    /\ call' = name
    /\ cmd' = q.cmd
    /\ result' = q.result
    /\ invocations' = invocations + (IF q.result.kind = "Cfg" THEN 1 ELSE 2)
    /\ UNCHANGED <<builder, response, emitted, prev>>

\* A query returns: the process was invoked once with command q.cmd.
Returned(name, q) ==
    /\ pc' = "done"
    /\ call' = name
    /\ cmd' = q.cmd
    /\ result' = q.result
    /\ invocations' = invocations + 1
    /\ UNCHANGED <<builder, response, emitted, prev>>

Call_execute ==
    /\ pc = "prepare"
    /\ invocations < MaxQueries
    /\ \E env \in CargoPaths : Returned(<<"execute">>, execute(builder, env, response))

Call_Cfg_host ==
    /\ pc = "prepare"
    /\ invocations < MaxQueries
    /\ \E env \in CargoPaths : Returned(<<"host">>, Cfg_host(env, response))

Call_Cfg_rustc_target ==
    /\ pc = "prepare"
    /\ invocations < MaxQueries
    /\ \E env \in CargoPaths, t \in Triples :
           Returned(<<"rustc_target", t>>, Cfg_rustc_target(t, env, response))

\* The query the caller has just made.
ThisQuery ==
    [call |-> call, builder |-> builder, response |-> response, cmd |-> cmd,
     result |-> result]

\* The caller drops the result and turns to its next query.
NextQuery ==
    /\ pc = "done"
    /\ pc' = "prepare"
    /\ call' = <<>>
    /\ cmd' = NoCommand
    /\ result' = NoResult
    /\ response' \in Responses
    /\ emitted' = 0
    /\ prev' = NoQuery
    /\ UNCHANGED <<builder, invocations>>

\* The caller keeps the result and turns to its next query.
KeepAndNextQuery ==
    /\ pc = "done"
    /\ pc' = "prepare"
    /\ call' = <<>>
    /\ cmd' = NoCommand
    /\ result' = NoResult
    /\ response' \in Responses
    /\ emitted' = 0
    /\ prev' = ThisQuery
    /\ UNCHANGED <<builder, invocations>>

Next ==
    \/ EmitLine
    \/ Call_default
    \/ Call_cargo_args
    \/ Call_cargo_target
    \/ Call_cargo_toolchain
    \/ Call_rustc_args
    \/ Call_rustc_target
    \/ Call_execute
    \/ Call_Cfg_host
    \/ Call_Cfg_rustc_target
    \/ NextQuery
    \/ KeepAndNextQuery

Spec == Init /\ [][Next]_vars

\* The parse: one query of a default builder, any output of the process.
NextParse == EmitLine \/ Call_execute

SpecParse == Init /\ [][NextParse]_vars

\* The command line: any builder, the first block of the process only.
NextArgs ==
    \/ Call_default
    \/ Call_cargo_args
    \/ Call_cargo_target
    \/ Call_cargo_toolchain
    \/ Call_rustc_args
    \/ Call_rustc_target
    \/ Call_execute
    \/ NextQuery

SpecArgs == Init /\ [][NextArgs]_vars

\* Two queries in a row, the caller holding the first one's result.
NextQueries ==
    \/ Call_default
    \/ Call_rustc_target
    \/ Call_execute
    \/ Call_Cfg_host
    \/ Call_Cfg_rustc_target
    \/ KeepAndNextQuery

SpecQueries == Init /\ [][NextQueries]_vars

---------------------------------------------------------------------------
(* What the claims speak of, stated on the text of the output and not by   *)
(* the parser's own steps.                                                 *)

Last(q) == q[Len(q)]

HasPrefix(s, p) == Len(s) >= Len(p) /\ SubSeq(s, 1, Len(p)) = p

IsInfix(a, b) ==
    \E i \in 0..(Len(b) - Len(a)) : SubSeq(b, i + 1, i + Len(a)) = a

\* a is b with some of its entries left out, the order kept.
RECURSIVE IsSubsequence(_, _)
IsSubsequence(a, b) ==
    IF a = <<>> THEN TRUE
    ELSE IF b = <<>> THEN FALSE
    ELSE IF Head(a) = Head(b) THEN IsSubsequence(Tail(a), Tail(b))
    ELSE IsSubsequence(a, Tail(b))

\* The process ran, exited with success and wrote valid UTF-8.
Parsed ==
    /\ pc = "done"
    /\ response.spawn = "ok"
    /\ response.status = 0
    /\ from_utf8_ok(response.stdout)

OutputLines == lines(response.stdout)

\* The line is `key=...`.
IsLineFor(key, line) == HasPrefix(line, <<key, EQ>>)

LinesFor(key) == SelectSeq(OutputLines, LAMBDA line : IsLineFor(key, line))

Recognized(line) == \E key \in TargetKeys : IsLineFor(key, line)

\* All of the line after its first `=`.
RightSide(line) == SubSeq(line, IndexOf(line, EQ) + 1, Len(line))

\* The value execute() stores for a line of a recognized key.
StoredValue(line) == Stripped(KeyValue(line)[2])

\* v without one pair of enclosing double quotes, when it has one.
StripOnePair(v) ==
    IF Len(v) >= 2 /\ v[1] = QUOTE /\ v[Len(v)] = QUOTE
    THEN SubSeq(v, 2, Len(v) - 1) ELSE v

OptionalKeys == {"target_env", "target_family", "target_vendor"}

SingleKeys == AllMandatory \cup OptionalKeys

\* The field of Target that holds a key's value.
FieldOf(key) ==
    CASE key = "target_arch" -> "arch"
      [] key = "target_endian" -> "endian"
      [] key = "target_env" -> "env"
      [] key = "target_family" -> "family"
      [] key = "target_os" -> "os"
      [] key = "target_pointer_width" -> "pointer_width"
      [] key = "target_vendor" -> "vendor"

\* The text a Cfg holds for a single-valued key: an optional field that is
\* None holds the empty text.
FieldText(cfg, key) ==
    LET f == cfg.target[FieldOf(key)] IN
    IF key \in OptionalKeys THEN (IF f = None THEN <<>> ELSE f[1]) ELSE f

\* The first mandatory key without a line, or "" when each has one.
FirstAbsent ==
    LET absent == {i \in 1..Len(MandatoryKeys) : LinesFor(MandatoryKeys[i]) = <<>>}
    IN IF absent = {} THEN ""
       ELSE MandatoryKeys[CHOOSE i \in absent : \A j \in absent : i <= j]

---------------------------------------------------------------------------
(* C1: whatever the builder and whatever the stdout, a process that exits  *)
(* with a non-zero status makes execute return the Command error, and the  *)
(* message Display gives for that error contains the text of the captured  *)
(* stderr (the stderr itself when it is valid UTF-8).                      *)
C1_NonZeroExitIsCommandError ==
    (pc = "done" /\ response.spawn = "ok" /\ response.status # 0) =>
        /\ result.kind = "Command"
        /\ IsInfix(from_utf8_lossy(response.stderr), Display(result))
        /\ from_utf8_ok(response.stderr) =>
               IsInfix(response.stderr, Display(result))

\* A failed process whose stdout holds every mandatory line, run by a
\* builder that is not the default one.
C1_Witness ==
    /\ pc = "done"
    /\ response.spawn = "ok"
    /\ response.status = 1
    /\ HasPrefix(response.stdout, Block(AllMandatory, 1))
    /\ Len(response.stderr) > 0
    /\ builder.cargo_toolchain # None
    /\ builder.cargo_target # Library
    /\ result.kind = "Command"

(* C2 as stated: for each mandatory key, an output without a line for it   *)
(* makes execute return MissingOutput carrying that key's name, and every  *)
(* Cfg has the four mandatory fields set from a line of the output.        *)
C2_Original ==
    Parsed =>
        /\ \A i \in 1..Len(MandatoryKeys) :
               LinesFor(MandatoryKeys[i]) = <<>> =>
                   result = Err_MissingOutput(MandatoryKeys[i])
        /\ result.kind = "Cfg" =>
               \A i \in 1..Len(MandatoryKeys) :
                   /\ LinesFor(MandatoryKeys[i]) # <<>>
                   /\ FieldText(result, MandatoryKeys[i])
                          = StoredValue(Last(LinesFor(MandatoryKeys[i])))

(* C2, amended: an output without a line for some mandatory key makes      *)
(* execute return MissingOutput and no Cfg, and the error carries the name *)
(* of the first absent key in the order target_arch, target_endian,        *)
(* target_os, target_pointer_width; every Cfg has the four mandatory       *)
(* fields set from a line of the output.                                   *)
C2_MissingKeyNamesFirstAbsent ==
    Parsed =>
        /\ FirstAbsent # "" => result = Err_MissingOutput(FirstAbsent)
        /\ result.kind = "Cfg" =>
               \A i \in 1..Len(MandatoryKeys) :
                   /\ LinesFor(MandatoryKeys[i]) # <<>>
                   /\ FieldText(result, MandatoryKeys[i])
                          = StoredValue(Last(LinesFor(MandatoryKeys[i])))

\* Two mandatory keys are absent and the error names the earlier one.
C2_Witness ==
    /\ Parsed
    /\ LinesFor("target_arch") # <<>>
    /\ LinesFor("target_endian") = <<>>
    /\ LinesFor("target_os") # <<>>
    /\ LinesFor("target_pointer_width") = <<>>
    /\ result = Err_MissingOutput("target_endian")

(* C3: in every Cfg each optional field (env, family, vendor) is None      *)
(* exactly when the output has no line for its key or the value stored for *)
(* the line that sets it (the last one) is empty after quote-stripping;    *)
(* otherwise it is Some of that value.                                     *)
C3_OptionalFieldNoneIffAbsentOrEmpty ==
    (Parsed /\ result.kind = "Cfg") =>
        \A key \in OptionalKeys :
            result.target[FieldOf(key)] =
                IF LinesFor(key) = <<>> THEN None
                ELSE IF StoredValue(Last(LinesFor(key))) = <<>> THEN None
                ELSE Some(StoredValue(Last(LinesFor(key))))

\* One optional key with an empty value, one with a value, one absent.
C3_Witness ==
    /\ Parsed
    /\ result.kind = "Cfg"
    /\ LinesFor("target_env") # <<>>
    /\ result.target.env = None
    /\ result.target.family = Some(<<"unix">>)
    /\ LinesFor("target_vendor") = <<>>
    /\ result.target.vendor = None

\* The line holds at most one `=`.
SingleEq(line) == Len(split(line, EQ)) <= 2

(* C4 as stated, on outputs whose lines hold at most one `=`: the value    *)
(* stored for a line of a recognized key is the right side of the `=`      *)
(* without exactly one pair of enclosing double quotes, when it has one.   *)
C4_ExactlyOnePairOfQuotesRemoved ==
    (Parsed /\ result.kind = "Cfg"
        /\ \A i \in 1..Len(OutputLines) : SingleEq(OutputLines[i])) =>
        /\ \A key \in SingleKeys :
               LinesFor(key) # <<>> =>
                   FieldText(result, key)
                       = StripOnePair(RightSide(Last(LinesFor(key))))
        /\ result.target.features =
               [i \in 1..Len(LinesFor("target_feature")) |->
                   StripOnePair(RightSide(LinesFor("target_feature")[i]))]

(* C5 as stated: a line is split at its first `=` only; the key is the     *)
(* text before it and the raw value, which is then quote-stripped and      *)
(* stored, is all of the text after it, further `=` included.              *)
C5_SplitAtFirstEqOnly ==
    (Parsed /\ result.kind = "Cfg") =>
        /\ \A key \in SingleKeys :
               LinesFor(key) # <<>> =>
                   FieldText(result, key)
                       = Stripped(RightSide(Last(LinesFor(key))))
        /\ result.target.features =
               [i \in 1..Len(LinesFor("target_feature")) |->
                   Stripped(RightSide(LinesFor("target_feature")[i]))]

(* C6: extras holds every line of the output that is not a `key=...` line  *)
(* of one of the eight recognized keys, each exactly as the output has it, *)
(* and holds nothing else.                                                 *)
C6_UnrecognizedLinesKeptVerbatim ==
    (Parsed /\ result.kind = "Cfg") =>
        result.extras = SelectSeq(OutputLines, LAMBDA line : ~Recognized(line))

\* A Cfg whose extras hold a quoted `key="value"` line of another key.
C6_Witness ==
    /\ Parsed
    /\ result.kind = "Cfg"
    /\ Len(result.extras) = 2
    /\ \E i \in 1..2 : result.extras[i] = <<"panic", EQ, QUOTE, "unwind", QUOTE>>

(* C7: the feature list holds the stored value of every target_feature     *)
(* line, one entry per line and in the order of the lines, and extras      *)
(* holds its lines in the order in which the output has them.              *)
C7_EntryOrderIsLineOrder ==
    (Parsed /\ result.kind = "Cfg") =>
        /\ result.target.features =
               [i \in 1..Len(LinesFor("target_feature")) |->
                   StoredValue(LinesFor("target_feature")[i])]
        /\ IsSubsequence(result.extras, OutputLines)

\* target_feature="sse2" then target_feature="sse" gives ["sse2", "sse"].
C7_Witness ==
    /\ Parsed
    /\ result.kind = "Cfg"
    /\ result.target.features = <<<<"sse2">>, <<"sse">>>>

\* The arguments of the documented signature
\* cargo <TOOLCHAIN> rustc <CARGO_ARGS> <CARGO_TARGET> <RUSTC_TARGET> --
\* <RUSTC_ARGS> --print cfg.
DocumentedArgs(b) ==
    (IF b.cargo_toolchain # None THEN <<"+" \o b.cargo_toolchain[1]>> ELSE <<>>)
    \o <<RUSTC>>
    \o (IF b.cargo_args # None THEN b.cargo_args[1] ELSE <<>>)
    \o to_args(b.cargo_target)
    \o (IF b.rustc_target # None THEN <<"--target", b.rustc_target[1]>> ELSE <<>>)
    \o <<"--">>
    \o (IF b.rustc_args # None THEN b.rustc_args[1] ELSE <<>>)
    \o <<"--print", "cfg">>

(* C8 as stated: the argument list of execute follows the documented       *)
(* signature, the Cargo target flag before the `--` separator, so that the *)
(* default builder runs `cargo rustc --lib -- --print cfg`.                *)
C8_ArgsFollowDocumentedSignature ==
    (pc = "done" /\ call = <<"execute">>) =>
        /\ cmd.args = DocumentedArgs(builder)
        /\ builder = CargoRustcPrintCfg_default =>
               cmd.args = <<"rustc", "--lib", "--", "--print", "cfg">>

\* The earlier query and the last one, in both orders.
QueryPairs ==
    IF pc = "done" /\ prev.call # <<>>
    THEN {<<prev, ThisQuery>>, <<ThisQuery, prev>>} ELSE {}

(* C9: a Cfg::host() query and an execute() of a default builder that get  *)
(* the same answer from the process pass it the same argument list and     *)
(* return the same Cfg or error; so do, for every triple t, a              *)
(* Cfg::rustc_target(t) query and an execute() of a default builder with   *)
(* rustc_target(t).                                                        *)
C9_HelpersEqualDefaultBuilder ==
    \A p \in QueryPairs :
        LET h == p[1]
            e == p[2]
        IN (e.call = <<"execute">> /\ h.response = e.response) =>
               /\ (h.call = <<"host">> /\ e.builder = CargoRustcPrintCfg_default) =>
                      (h.cmd.args = e.cmd.args /\ h.result = e.result)
               /\ \A t \in Triples :
                      (/\ h.call = <<"rustc_target", t>>
                       /\ e.builder = rustc_target(CargoRustcPrintCfg_default, t)) =>
                          (h.cmd.args = e.cmd.args /\ h.result = e.result)

\* Cfg::rustc_target(t), then execute() of default().rustc_target(t), the
\* process answering both with the same full block.
C9_Witness ==
    /\ pc = "done"
    /\ call = <<"execute">>
    /\ prev.call = <<"rustc_target", "wasm32-unknown-unknown">>
    /\ builder = rustc_target(CargoRustcPrintCfg_default, "wasm32-unknown-unknown")
    /\ prev.response = response
    /\ result.kind = "Cfg"

(* C10: every query ends with one result, a Cfg or one of the errors Io,   *)
(* Command, FromUtf8, MissingOutput; after a successful exit with valid    *)
(* UTF-8 no line makes the parse fail, so the result is a Cfg or           *)
(* MissingOutput.                                                          *)
C10_OneResultOfKnownKind ==
    /\ pc = "done" =>
           result.kind \in {"Cfg", "Io", "Command", "FromUtf8", "MissingOutput"}
    /\ Parsed => result.kind \in {"Cfg", "MissingOutput"}
    /\ (Parsed /\ FirstAbsent = "") => result.kind = "Cfg"

\* A Cfg from an output with a blank line and a line with two `=`.
C10_Witness ==
    /\ Parsed
    /\ result.kind = "Cfg"
    /\ \E i \in 1..Len(OutputLines) : OutputLines[i] = <<>>
    /\ \E i \in 1..Len(OutputLines) : ~SingleEq(OutputLines[i])

(* C11: when the process exits with success and its stdout is not valid    *)
(* UTF-8, execute returns the FromUtf8 error and no Cfg, whatever valid    *)
(* lines come before or after the invalid bytes.                           *)
C11_InvalidUtf8IsFromUtf8Error ==
    (/\ pc = "done"
     /\ response.spawn = "ok"
     /\ response.status = 0
     /\ ~from_utf8_ok(response.stdout)) => result = Err_FromUtf8

\* Every mandatory line, then a line of invalid bytes.
C11_Witness ==
    /\ pc = "done"
    /\ response.status = 0
    /\ HasPrefix(response.stdout, Block(AllMandatory, 1))
    /\ Last(lines(response.stdout)) = <<BadByte>>
    /\ result = Err_FromUtf8

\* The step is the return of a query.
QueryStep == pc = "prepare" /\ pc' = "done"

(* C12: the process has not been invoked before the first query; every     *)
(* query (execute, Cfg::host, Cfg::rustc_target) invokes it exactly once,  *)
(* whether it fails or succeeds and whatever an earlier query returned;    *)
(* nothing else invokes it.  So n queries make n invocations.              *)
C12_OneInvocationPerQuery ==
    /\ invocations = 0
    /\ [][/\ QueryStep => invocations' = invocations + 1
          /\ ~QueryStep => invocations' = invocations]_vars

\* A query that failed to spawn, then a second query with the same builder
\* that invoked the process again.
C12_Witness ==
    /\ pc = "done"
    /\ prev.call = <<"execute">>
    /\ prev.result = Err_Io
    /\ call = <<"execute">>
    /\ prev.builder = builder
    /\ result.kind = "Cfg"
    /\ invocations = 2

\* The selector arguments of the toolchains.
ToolchainArgs == {"+" \o t : t \in Toolchains}

\* What the builder holds for an optional list of arguments.
ListOf(option) == IF option # None THEN option[1] ELSE <<>>

(* C13: with a toolchain set, the argument `+<name>` is the first          *)
(* argument, `rustc` is the second, and no other argument is a toolchain   *)
(* selector; with no toolchain set, the first argument is `rustc` and no   *)
(* argument is a toolchain selector.                                       *)
C13_ToolchainSelectorIsFirst ==
    pc = "done" =>
        IF builder.cargo_toolchain # None
        THEN /\ cmd.args[1] = "+" \o builder.cargo_toolchain[1]
             /\ cmd.args[2] = RUSTC
             /\ \A i \in 2..Len(cmd.args) : cmd.args[i] \notin ToolchainArgs
        ELSE /\ cmd.args[1] = RUSTC
             /\ \A i \in 1..Len(cmd.args) : cmd.args[i] \notin ToolchainArgs

\* A query with the toolchain, Cargo arguments and a rustc target set.
C13_Witness ==
    /\ pc = "done"
    /\ builder.cargo_toolchain = Some("stable")
    /\ builder.cargo_args = Some(<<"-v", "--release">>)
    /\ builder.rustc_target # None
    /\ cmd.args[1] = "+stable"

(* C14: the argument list has the `--` separator; the rustc_args stand in  *)
(* their given order after the first separator and before the last two     *)
(* arguments; the last two arguments are `--print` and `cfg`.              *)
C14_RustcArgsBetweenSeparatorAndPrint ==
    pc = "done" =>
        LET args == cmd.args
            n == Len(args)
            sep == IndexOf(args, "--")
            ra == ListOf(builder.rustc_args)
        IN  /\ sep > 0
            /\ \E i \in sep..(n - 2 - Len(ra)) :
                   SubSeq(args, i + 1, i + Len(ra)) = ra
            /\ args[n - 1] = "--print"
            /\ args[n] = "cfg"

\* A query whose rustc arguments hold a `--` of their own.
C14_Witness ==
    /\ pc = "done"
    /\ builder.rustc_args = Some(<<"--cfg", "--">>)
    /\ builder.cargo_target = Example("cli")
    /\ IsInfix(<<"--", "--cfg", "--">>, cmd.args)

\* The arguments that select a target.
TargetSelectionFlags ==
    {"--lib", "--bin", "--bench", "--example", "--test", "--target"}

(* C15: with cargo_args set, they stand in their given order right after   *)
(* `rustc`, and every target selection argument (the Cargo target flag and *)
(* `--target`) stands after them.                                          *)
C15_CargoArgsAfterRustcBeforeTargets ==
    (pc = "done" /\ builder.cargo_args # None) =>
        LET args == cmd.args
            r == IndexOf(args, RUSTC)
            ca == builder.cargo_args[1]
        IN  /\ r > 0
            /\ SubSeq(args, r + 1, r + Len(ca)) = ca
            /\ \E i \in 1..Len(args) : args[i] \in TargetSelectionFlags
            /\ \A i \in 1..Len(args) :
                   args[i] \in TargetSelectionFlags => i > r + Len(ca)

\* Two Cargo arguments, a binary target and a rustc target.
C15_Witness ==
    /\ pc = "done"
    /\ builder.cargo_args = Some(<<"-v", "--release">>)
    /\ builder.cargo_target = Binary("app")
    /\ builder.rustc_target = Some("wasm32-unknown-unknown")
    /\ IsInfix(<<RUSTC, "-v", "--release", "--target">>, cmd.args)

(* C16: with a rustc target set, `--target` occurs once, the builder's     *)
(* triple is the next argument, and the pair stands after the cargo_args   *)
(* and before the `--` separator; with none set, no argument is            *)
(* `--target`.                                                             *)
C16_TargetPairBeforeSeparator ==
    pc = "done" =>
        LET args == cmd.args
            r == IndexOf(args, RUSTC)
            sep == IndexOf(args, "--")
            ca == ListOf(builder.cargo_args)
            at == {i \in 1..Len(args) : args[i] = "--target"}
        IN  IF builder.rustc_target # None
            THEN /\ Cardinality(at) = 1
                 /\ \A i \in at :
                        /\ args[i + 1] = builder.rustc_target[1]
                        /\ i > r + Len(ca)
                        /\ i + 1 < sep
            ELSE at = {}

\* A rustc target, with Cargo arguments before it and rustc arguments after.
C16_Witness ==
    /\ pc = "done"
    /\ builder.rustc_target = Some("x86_64-pc-windows-msvc")
    /\ builder.cargo_args = Some(<<"--release">>)
    /\ builder.rustc_args = Some(<<"-C", "lto">>)
    /\ IsInfix(<<"--release", "--target", "x86_64-pc-windows-msvc", "--">>,
               cmd.args)

\* The flag arguments of each variant.
FlagArgs(t) ==
    IF t = Library THEN <<"--lib">>
    ELSE IF t.variant = "Benchmark" THEN <<"--bench", t.name>>
    ELSE IF t.variant = "Binary" THEN <<"--bin", t.name>>
    ELSE IF t.variant = "Example" THEN <<"--example", t.name>>
    ELSE <<"--test", t.name>>

(* C17: the builder's Cargo target converts to the flag arguments of its   *)
(* variant (Library to `--lib`, the others to their flag and their name),  *)
(* to_args and into_args give the same sequence, a query passes that       *)
(* sequence to the process, and the default variant is Library.            *)
C17_CargoTargetFlagArgs ==
    LET t == builder.cargo_target
    IN  /\ t.variant \in {"Benchmark", "Binary", "Example", "Library", "Test"}
        /\ to_args(t) = FlagArgs(t)
        /\ into_args(t) = to_args(t)
        /\ CargoTarget_default = Library
        /\ builder = CargoRustcPrintCfg_default => t = Library
        /\ pc = "done" => IsInfix(FlagArgs(t), cmd.args)

\* A query for a test target.
C17_Witness ==
    /\ pc = "done"
    /\ builder.cargo_target = Test("cli")
    /\ IsInfix(<<"--test", "cli", "--print", "cfg">>, cmd.args)

NoEq(line) == IndexOf(line, EQ) = 0

\* The lines of the output without `=`, and the entries of extras without.
BareLines == SelectSeq(OutputLines, NoEq)

BareEntries == SelectSeq(result.extras, NoEq)

(* C18 as stated: the entries without `=` are the lines without `=`, one   *)
(* entry per line and in their order, each with its leading and trailing   *)
(* whitespace removed.                                                     *)
C18_Original ==
    (Parsed /\ result.kind = "Cfg") =>
        BareEntries = [i \in 1..Len(BareLines) |-> trim(BareLines[i])]

(* C18: the entries without `=` are the lines without `=`, one entry per   *)
(* line and in their order, each the text of the line without its line     *)
(* terminator and with its leading and trailing whitespace kept.           *)
C18_BareLinesKeptUntrimmed ==
    (Parsed /\ result.kind = "Cfg") => BareEntries = BareLines

\* A line with a space on either side of its name.
C18_Witness ==
    /\ Parsed
    /\ result.kind = "Cfg"
    /\ BareLines = <<<<"unix">>, <<SPACE, "debug_assertions", SPACE>>>>
    /\ result.extras = BareLines

(* C19: a query leaves the builder as it was, and a query made right after *)
(* another of the same kind, with an equal builder and an equal response   *)
(* of the process, returns the result the earlier one returned, whether    *)
(* that was a Cfg or an error.                                             *)
C19_QueriesAreIndependent ==
    [][QueryStep =>
          /\ builder' = builder
          /\ (/\ prev.call = call'
              /\ prev.builder = builder
              /\ prev.response = response) => result' = prev.result]_vars

\* Two execute() in a row with a rustc target set, each answered by the
\* same output without target_os.
C19_Witness ==
    /\ pc = "done"
    /\ invocations = 2
    /\ call = <<"execute">>
    /\ prev.call = call
    /\ prev.builder = builder
    /\ builder.rustc_target # None
    /\ prev.response = response
    /\ result = Err_MissingOutput("target_os")
    /\ prev.result = result

\* The indexes of the blank lines of the output.
BlankLines == {i \in 1..Len(OutputLines) : OutputLines[i] = <<>>}

\* The output is two blocks of lines with one blank line between them.
TwoBlocks ==
    /\ Cardinality(BlankLines) = 1
    /\ \A i \in BlankLines : 1 < i /\ i < Len(OutputLines)

BlankAt == CHOOSE i \in BlankLines : TRUE

FirstBlockLines == SubSeq(OutputLines, 1, BlankAt - 1)

SecondBlockLines == SubSeq(OutputLines, BlankAt + 1, Len(OutputLines))

\* The target configurations a result holds: a Cfg is one, an error none.
Configurations == IF result.kind = "Cfg" THEN <<result>> ELSE <<>>

AbsentKeys == {key \in AllMandatory : LinesFor(key) = <<>>}

(* C21: the failure checks run in the order spawn, exit status, UTF-8,     *)
(* mandatory keys, and the first that fails decides the error: a process   *)
(* that did not start gives Io; one that exited with a non-zero status     *)
(* gives Command whatever its stdout; a successful one with invalid UTF-8  *)
(* gives FromUtf8 whatever keys are absent; MissingOutput is returned only *)
(* after a successful exit with valid UTF-8.                               *)
C21_FirstFailingCheckDecides ==
    pc = "done" =>
        /\ response.spawn = "err" => result.kind = "Io"
        /\ (response.spawn = "ok" /\ response.status # 0) =>
               result.kind = "Command"
        /\ (/\ response.spawn = "ok"
            /\ response.status = 0
            /\ ~from_utf8_ok(response.stdout)) => result.kind = "FromUtf8"
        /\ result.kind = "MissingOutput" =>
               /\ response.spawn = "ok"
               /\ response.status = 0
               /\ from_utf8_ok(response.stdout)
               /\ AbsentKeys # {}

\* A non-zero exit whose stdout has invalid bytes and no mandatory key.
C21_Witness ==
    /\ pc = "done"
    /\ response.spawn = "ok"
    /\ response.status # 0
    /\ ~from_utf8_ok(response.stdout)
    /\ \A key \in AllMandatory :
           ~IsInfix(<<key, EQ>>, response.stdout)
    /\ result.kind = "Command"

(* C22: when two or more mandatory keys have no line in the output, the    *)
(* error is MissingOutput and its key is target_arch when that is absent,  *)
(* else target_endian when that is absent, else target_os (the last key    *)
(* is then absent too), whatever the order of the lines.                   *)
C22_SeveralAbsentNamesFirstInFixedOrder ==
    (Parsed /\ Cardinality(AbsentKeys) >= 2) =>
        result = Err_MissingOutput(
                     IF "target_arch" \in AbsentKeys THEN "target_arch"
                     ELSE IF "target_endian" \in AbsentKeys THEN "target_endian"
                     ELSE "target_os")

\* target_os comes before target_arch in the output; target_endian and
\* target_pointer_width are absent and the error names target_endian.
C22_Witness ==
    /\ Parsed
    /\ Len(OutputLines) = 2
    /\ IsLineFor("target_os", OutputLines[1])
    /\ IsLineFor("target_arch", OutputLines[2])
    /\ AbsentKeys = {"target_endian", "target_pointer_width"}
    /\ result = Err_MissingOutput("target_endian")

(* C23: in every Cfg, a single-valued key with two or more lines has its   *)
(* field set from the last of them only: a mandatory field holds the value *)
(* stored for the last line, an optional field is None when that value is  *)
(* empty, whatever the earlier lines held, and Some of it otherwise.       *)
C23_LastLineOfAKeyWins ==
    (Parsed /\ result.kind = "Cfg") =>
        \A key \in SingleKeys :
            Len(LinesFor(key)) >= 2 =>
                LET last == StoredValue(Last(LinesFor(key)))
                    field == result.target[FieldOf(key)]
                IN  IF key \in OptionalKeys
                    THEN field = (IF last = <<>> THEN None ELSE Some(last))
                    ELSE field = last

\* target_env="gnu" and then target_env="": the field is None.
C23_Witness ==
    /\ Parsed
    /\ result.kind = "Cfg"
    /\ LinesFor("target_env") =
           <<<<"target_env", EQ, QUOTE, "gnu", QUOTE>>,
             <<"target_env", EQ, QUOTE, QUOTE>>>>
    /\ result.target.env = None

\* The number of entries of s that equal e.
Count(s, e) == Cardinality({i \in 1..Len(s) : s[i] = e})

\* The lines that are the name of a recognized key and nothing else.
BareKeyNames == {<<key>> : key \in TargetKeys}

(* C24: in every Cfg the number of entries of extras plus the number of    *)
(* lines of the eight recognized keys is the number of lines of the        *)
(* output, no entry of extras is a line of a recognized key, every         *)
(* target_feature line gives one feature, and extras holds a blank line    *)
(* and a bare key name as often as the output does.  A mandatory key that  *)
(* occurs as a bare name only is absent: execute returns MissingOutput.    *)
C24_EveryLineAccountedForOnce ==
    Parsed =>
        /\ result.kind = "Cfg" =>
               /\ Len(result.extras) + Len(SelectSeq(OutputLines, Recognized))
                      = Len(OutputLines)
               /\ \A i \in 1..Len(result.extras) : ~Recognized(result.extras[i])
               /\ Len(result.target.features) = Len(LinesFor("target_feature"))
               /\ \A e \in BareKeyNames \cup {<<>>} :
                      Count(result.extras, e) = Count(OutputLines, e)
        /\ \A key \in AllMandatory :
               (Count(OutputLines, <<key>>) > 0 /\ LinesFor(key) = <<>>) =>
                   result.kind = "MissingOutput"

\* A blank line and the bare name target_arch after a complete block.
C24_Witness ==
    /\ Parsed
    /\ result.kind = "Cfg"
    /\ Len(OutputLines) = 6
    /\ result.extras = <<<<>>, <<"target_arch">>>>
    /\ result.target.arch = <<"x86_64">>

\* The line gives its key an empty value: `key=` or `key=""`.
EmptyValue(line) == RightSide(line) \in {<<>>, <<QUOTE, QUOTE>>}

(* C25: an output with a line for each mandatory key gives a Cfg, also     *)
(* when a mandatory key's value is empty: the field then holds the empty   *)
(* text.  An optional key whose last line has an empty value leaves its    *)
(* field None, as if the key had no line.                                  *)
C25_EmptyMandatoryValueIsPresent ==
    (Parsed /\ AbsentKeys = {}) =>
        /\ result.kind = "Cfg"
        /\ \A key \in AllMandatory :
               EmptyValue(Last(LinesFor(key))) =>
                   result.target[FieldOf(key)] = <<>>
        /\ \A key \in OptionalKeys :
               (LinesFor(key) # <<>> /\ EmptyValue(Last(LinesFor(key)))) =>
                   result.target[FieldOf(key)] = None

\* The only target_pointer_width line is target_pointer_width="", and
\* target_family has an empty value too.
C25_Witness ==
    /\ Parsed
    /\ LinesFor("target_pointer_width") =
           <<<<"target_pointer_width", EQ, QUOTE, QUOTE>>>>
    /\ LinesFor("target_family") = <<<<"target_family", EQ>>>>
    /\ result.kind = "Cfg"
    /\ result.target.pointer_width = <<>>
    /\ result.target.family = None

\* b2 is b with one option set to a value a setter can be given.
OneOptionSet(b, b2) ==
    \/ \E a \in ArgLists : b2 = [b EXCEPT !.cargo_args = Some(a)]
    \/ \E t \in CargoTargets : b2 = [b EXCEPT !.cargo_target = t]
    \/ \E t \in Toolchains : b2 = [b EXCEPT !.cargo_toolchain = Some(t)]
    \/ \E a \in RustcArgLists : b2 = [b EXCEPT !.rustc_args = Some(a)]
    \/ \E t \in Triples : b2 = [b EXCEPT !.rustc_target = Some(t)]

\* The number of arguments a query passes for the options b holds.
ArgCount(b) ==
    (IF b.cargo_toolchain # None THEN 1 ELSE 0) + 1
    + Len(ListOf(b.cargo_args))
    + (IF b.rustc_target # None THEN 2 ELSE 0) + 1
    + Len(ListOf(b.rustc_args))
    + (IF b.cargo_target = Library THEN 1 ELSE 2) + 2

(* C26: a step that changes the builder either makes a new default builder *)
(* or sets one option to the value given and leaves the other four as they *)
(* were; the new value stands in place of the old one and is never the old *)
(* one with the new appended.  A query passes the values the builder holds *)
(* and no argument more.                                                   *)
C26_SettersReplaceOneOption ==
    [][/\ builder' # builder =>
              \/ builder' = CargoRustcPrintCfg_default
              \/ OneOptionSet(builder, builder')
       /\ QueryStep =>
              /\ Len(cmd'.args) = ArgCount(builder)
              /\ IsInfix(ListOf(builder.cargo_args), cmd'.args)
              /\ IsInfix(ListOf(builder.rustc_args), cmd'.args)]_vars

\* A query of a builder with all five options set: each setter left the
\* values of the others in place.
C26_Witness ==
    /\ pc = "done"
    /\ builder.cargo_args = Some(<<"-v", "--release">>)
    /\ builder.cargo_target = Example("app")
    /\ builder.cargo_toolchain = Some("nightly")
    /\ builder.rustc_args = Some(<<"-C", "lto">>)
    /\ builder.rustc_target = Some("wasm32-unknown-unknown")
    /\ cmd.args = <<"+nightly", RUSTC, "-v", "--release", "--target",
                    "wasm32-unknown-unknown", "--", "-C", "lto",
                    "--example", "app", "--print", "cfg">>

====
